---- MODULE Spec2Model ----
(***************************************************************************)
(* The game screen of frontend/app/index.tsx (JamaicanRacingGame): its     *)
(* React state, its four effects, its timers and its requests in flight.   *)
(*                                                                         *)
(* The variables named like the useState cells hold the last committed     *)
(* render.  A handler runs with the closure of that render and its state   *)
(* updates are committed in the same step (one event is handled to         *)
(* completion before the next).                                            *)
(*                                                                         *)
(* The passive effects (useEffect) of a commit run in a later step,        *)
(* FlushEffects, and always before the next commit.  Whether a timer       *)
(* callback can fire between a commit and its effects depends on the       *)
(* renderer the screen is built with; the model allows it.  An interval    *)
(* callback that fires there is rendered after the effects have run        *)
(* (tickInFlight).  A press is dispatched, and the continuation of an      *)
(* awaited request is rendered, once the pending effects have run.         *)
(***************************************************************************)
EXTENDS Integers, Sequences, FiniteSets, TLC

\* ---- bounds of the model
MaxStarts == 2
MaxJumps == 1
MaxDistance == 203

\* ---- constants of the program
Threshold == 200
VictoryScore == 500
TickDistance == 1
TickScore == 10
JumpBonus == 50
TimePlayedDivisor == 10

None == <<>>
Some(x) == <<x>>

FallbackPlayer == [id |-> "temp", name |-> "General Da Jamaican Boy", high_score |-> 0]
FallbackTrack == [id |-> "track_001", name |-> "jamaica_country", character_type |-> "on_foot"]
FallbackTracks == <<FallbackTrack>>

\* what the backend answers (the backend is not part of the screen)
BackendPlayer == [id |-> "p1", name |-> "General Da Jamaican Boy", high_score |-> 0]
BackendTrackLists ==
  { << [id |-> "b1", name |-> "jamaica_country", character_type |-> "on_foot"],
       [id |-> "b2", name |-> "kingston_city", character_type |-> "vehicle"] >> }

VARIABLES
  \* React state (useState)
  gameState, currentPlayer, currentTrack, availableTracks, gameSession,
  score, distance, dialogue, isJumping, isRunning, isInitialized,
  \* effects: dependencies of the last effect run, and the timers they own
  depInit, depGameState, depRunning,
  intervals, tickInFlight, timeoutArmed,
  \* jumpCharacter's timers
  jumpTimers,
  \* requests in flight and what the backend has received
  initPhase, startPending, endFlows, updates,
  \* history: start presses, accepted jumps of this race, and since the
  \* pending jump timer was set: the bonus added, whether a jump() was rejected
  starts, jumps, windowBonus, windowRejected

reactVars == <<gameState, currentPlayer, currentTrack, availableTracks, gameSession,
               score, distance, dialogue, isJumping, isRunning, isInitialized>>
effectVars == <<depInit, depGameState, depRunning, intervals, tickInFlight, timeoutArmed>>
netVars == <<initPhase, startPending, endFlows, updates>>
histVars == <<starts, jumps, windowBonus, windowRejected>>
vars == <<reactVars, effectVars, jumpTimers, netVars, histVars>>

Init ==
  /\ gameState = "menu"
  /\ currentPlayer = None
  /\ currentTrack = None
  /\ availableTracks = <<>>
  /\ gameSession = 0
  /\ score = 0
  /\ distance = 0
  /\ dialogue = "null"
  /\ isJumping = FALSE
  /\ isRunning = FALSE
  /\ isInitialized = FALSE
  \* the mount effects have run: initializeGame() awaits the player,
  \* the 5 s timeout is armed, no interval (gameState = 'menu')
  /\ depInit = FALSE
  /\ depGameState = "menu"
  /\ depRunning = FALSE
  /\ intervals = 0
  /\ tickInFlight = FALSE
  /\ timeoutArmed = TRUE
  /\ jumpTimers = 0
  /\ initPhase = "player"
  /\ startPending = 0
  /\ endFlows = <<>>
  /\ updates = <<>>
  /\ starts = 0
  /\ jumps = 0
  /\ windowRejected = FALSE
  /\ windowBonus = 0

\* ---- effects

IntervalDepsChanged == <<gameState, isRunning>> # <<depGameState, depRunning>>
TimeoutDepsChanged == isInitialized # depInit

\* the auto end effect (lines 272-277) runs after every commit that changes
\* distance or gameState and acts only if this holds.  A commit in which it
\* holds always differs in distance or gameState from the commit before it
\* (the effect run of a commit in which it holds leaves 'playing' at once),
\* so the effect is then still to run.
AutoEnd == distance > Threshold /\ gameState = "playing"

\* an effect of the last commit that has something to do is still to run
EffectsPending == IntervalDepsChanged \/ TimeoutDepsChanged \/ AutoEnd

\* nothing of the last commit is still to run
Idle == ~EffectsPending /\ ~tickInFlight

Remove(s, i) == SubSeq(s, 1, i - 1) \o SubSeq(s, i + 1, Len(s))

\* ---- initialization (lines 74-158)

\* the timeout callback without setIsInitialized(true)
forceInitializationKeepsLoading ==
  /\ timeoutArmed
  /\ timeoutArmed' = FALSE
  /\ currentPlayer' = Some(FallbackPlayer)
  /\ availableTracks' = FallbackTracks
  /\ currentTrack' = Some(FallbackTrack)
  /\ UNCHANGED <<gameState, gameSession, score, distance, dialogue, isJumping, isRunning,
                 isInitialized>>
  /\ UNCHANGED <<depInit, depGameState, depRunning, intervals, tickInFlight>>
  /\ UNCHANGED <<jumpTimers, netVars, histVars>>

\* the 5 s timeout of the mount render fires: its closure holds
\* isInitialized = false.  (timeoutArmed is this timeout; the one the effect
\* arms once isInitialized is true does nothing when it fires.)
forceInitialization ==
  /\ timeoutArmed
  /\ timeoutArmed' = FALSE
  /\ currentPlayer' = Some(FallbackPlayer)
  /\ availableTracks' = FallbackTracks
  /\ currentTrack' = Some(FallbackTrack)
  /\ isInitialized' = TRUE
  /\ UNCHANGED <<gameState, gameSession, score, distance, dialogue, isJumping, isRunning>>
  /\ UNCHANGED <<depInit, depGameState, depRunning, intervals, tickInFlight>>
  /\ UNCHANGED <<jumpTimers, netVars, histVars>>

\* initializeGame after the response of POST /api/players
initializePlayerResolved ==
  /\ Idle
  /\ initPhase = "player"
  /\ currentPlayer' = Some(BackendPlayer)
  /\ initPhase' = "tracks"
  /\ UNCHANGED <<gameState, currentTrack, availableTracks, gameSession, score, distance,
                 dialogue, isJumping, isRunning, isInitialized>>
  /\ UNCHANGED <<effectVars, jumpTimers, startPending, endFlows, updates, histVars>>

\* initializeGame after the response of GET /api/tracks
initializeTracksResolved ==
  /\ Idle
  /\ initPhase = "tracks"
  /\ \E tracks \in BackendTrackLists :
       /\ availableTracks' = tracks
       /\ currentTrack' = Some(tracks[1])
  /\ initPhase' = "dialogue"
  /\ UNCHANGED <<gameState, currentPlayer, gameSession, score, distance,
                 dialogue, isJumping, isRunning, isInitialized>>
  /\ UNCHANGED <<effectVars, jumpTimers, startPending, endFlows, updates, histVars>>

\* initializeGame after the response of POST /api/dialogue
initializeDialogueResolved ==
  /\ Idle
  /\ initPhase = "dialogue"
  /\ dialogue' = "backend"
  /\ isInitialized' = TRUE
  /\ initPhase' = "done"
  /\ UNCHANGED <<gameState, currentPlayer, currentTrack, availableTracks, gameSession,
                 score, distance, isJumping, isRunning>>
  /\ UNCHANGED <<effectVars, jumpTimers, startPending, endFlows, updates, histVars>>

\* initializeGame's catch: any of its three requests failed
initializeRejected ==
  /\ Idle
  /\ initPhase \in {"player", "tracks", "dialogue"}
  /\ dialogue' = "fallback"
  /\ currentPlayer' = Some(FallbackPlayer)
  /\ availableTracks' = FallbackTracks
  /\ isInitialized' = TRUE
  /\ initPhase' = "done"
  /\ UNCHANGED <<gameState, currentTrack, gameSession, score, distance, isJumping,
                 isRunning>>
  /\ UNCHANGED <<effectVars, jumpTimers, startPending, endFlows, updates, histVars>>

\* ---- what is on screen (lines 423-459)

renderMenu == isInitialized /\ gameState = "menu"
renderGameUI == isInitialized /\ gameState = "playing"
renderPauseMenu == isInitialized /\ gameState = "paused"
renderGameOver == isInitialized /\ gameState = "gameOver"

\* a track button of the menu
selectTrack ==
  /\ Idle
  /\ renderMenu
  /\ \E i \in DOMAIN availableTracks :
       /\ currentTrack # Some(availableTracks[i])
       /\ currentTrack' = Some(availableTracks[i])
  /\ UNCHANGED <<gameState, currentPlayer, availableTracks, gameSession, score, distance,
                 dialogue, isJumping, isRunning, isInitialized>>
  /\ UNCHANGED <<effectVars, jumpTimers, netVars, histVars>>

\* ---- startGame (lines 160-190)

\* START RACE / Race Again: up to the await of POST /api/game-sessions
startGame ==
  /\ Idle
  /\ renderMenu \/ renderGameOver
  /\ ~(currentPlayer = None \/ currentTrack = None)
  /\ starts < MaxStarts
  /\ startPending' = startPending + 1
  /\ starts' = starts + 1
  /\ UNCHANGED <<reactVars, effectVars, jumpTimers, initPhase, endFlows, updates,
                 jumps, windowBonus, windowRejected>>

\* the try branch after the await
startGameResolved ==
  /\ Idle
  /\ startPending > 0
  /\ startPending' = startPending - 1
  /\ gameSession' = Len(updates) + 1
  /\ updates' = Append(updates, 0)
  /\ score' = 0
  /\ distance' = 0
  /\ gameState' = "playing"
  /\ isRunning' = TRUE
  /\ jumps' = 0
  /\ UNCHANGED <<currentPlayer, currentTrack, availableTracks, dialogue, isJumping,
                 isInitialized>>
  /\ UNCHANGED <<effectVars, jumpTimers, initPhase, endFlows, starts, windowBonus,
                 windowRejected>>

\* the catch branch
startGameRejected ==
  /\ Idle
  /\ startPending > 0
  /\ startPending' = startPending - 1
  /\ gameState' = "playing"
  /\ isRunning' = TRUE
  \* a race starts unless one is under way (then this is a resume or nothing)
  /\ jumps' = IF gameState \in {"menu", "gameOver"} THEN 0 ELSE jumps
  /\ UNCHANGED <<currentPlayer, currentTrack, availableTracks, gameSession, score,
                 distance, dialogue, isJumping, isInitialized>>
  /\ UNCHANGED <<effectVars, jumpTimers, initPhase, endFlows, updates, starts,
                 windowBonus, windowRejected>>

\* ---- jumpCharacter (lines 192-201)

\* jumpCharacter without its test of isJumping
JumpAcceptedWhileJumping == ~(gameState # "playing")

\* jumpCharacter without its early return
JumpAcceptedAlways == TRUE

JumpAccepted == ~(isJumping \/ gameState # "playing")

jumpCharacter ==
  /\ Idle
  /\ renderGameUI
  /\ IF JumpAccepted
       THEN /\ jumpTimers = 0 => jumps < MaxJumps
            /\ isJumping' = TRUE
            /\ score' = score + JumpBonus
            /\ jumpTimers' = jumpTimers + 1
            /\ jumps' = jumps + 1
            /\ windowBonus' = windowBonus + JumpBonus
            /\ UNCHANGED windowRejected
       ELSE /\ windowRejected' = TRUE
            /\ UNCHANGED <<isJumping, score, jumpTimers, jumps, windowBonus>>
  /\ UNCHANGED <<gameState, currentPlayer, currentTrack, availableTracks, gameSession,
                 distance, dialogue, isRunning, isInitialized>>
  /\ UNCHANGED <<effectVars, netVars, starts>>

\* the timer callback without setIsJumping(false)
jumpTimeoutKeepsJumping ==
  /\ jumpTimers > 0
  /\ jumpTimers' = jumpTimers - 1
  /\ windowBonus' = IF jumpTimers = 1 THEN 0 ELSE windowBonus
  /\ windowRejected' = IF jumpTimers = 1 THEN FALSE ELSE windowRejected
  /\ UNCHANGED <<gameState, currentPlayer, currentTrack, availableTracks, gameSession,
                 score, distance, dialogue, isJumping, isRunning, isInitialized>>
  /\ UNCHANGED <<effectVars, netVars, starts, jumps>>

\* the 600 ms timer of a jump fires
jumpTimeout ==
  /\ jumpTimers > 0
  /\ jumpTimers' = jumpTimers - 1
  /\ isJumping' = FALSE
  /\ windowBonus' = IF jumpTimers = 1 THEN 0 ELSE windowBonus
  /\ windowRejected' = IF jumpTimers = 1 THEN FALSE ELSE windowRejected
  /\ UNCHANGED <<gameState, currentPlayer, currentTrack, availableTracks, gameSession,
                 score, distance, dialogue, isRunning, isInitialized>>
  /\ UNCHANGED <<effectVars, netVars, starts, jumps>>

\* ---- pauseGame, resumeGame, resetGame (lines 203-211, 251-256)

\* pauseGame without setIsRunning(false)
pauseGameKeepsRunning ==
  /\ Idle
  /\ renderGameUI
  /\ gameState' = "paused"
  /\ UNCHANGED <<currentPlayer, currentTrack, availableTracks, gameSession, score,
                 distance, dialogue, isJumping, isRunning, isInitialized>>
  /\ UNCHANGED <<effectVars, jumpTimers, netVars, histVars>>

pauseGame ==
  /\ Idle
  /\ renderGameUI
  /\ gameState' = "paused"
  /\ isRunning' = FALSE
  /\ UNCHANGED <<currentPlayer, currentTrack, availableTracks, gameSession, score,
                 distance, dialogue, isJumping, isInitialized>>
  /\ UNCHANGED <<effectVars, jumpTimers, netVars, histVars>>

resumeGame ==
  /\ Idle
  /\ renderPauseMenu
  /\ gameState' = "playing"
  /\ isRunning' = TRUE
  /\ UNCHANGED <<currentPlayer, currentTrack, availableTracks, gameSession, score,
                 distance, dialogue, isJumping, isInitialized>>
  /\ UNCHANGED <<effectVars, jumpTimers, netVars, histVars>>

\* resetGame without setGameSession(null)
resetGameKeepsSession ==
  /\ Idle
  /\ renderPauseMenu \/ renderGameOver
  /\ gameState' = "menu"
  /\ score' = 0
  /\ distance' = 0
  /\ UNCHANGED <<currentPlayer, currentTrack, availableTracks, gameSession, dialogue,
                 isJumping, isRunning, isInitialized>>
  /\ UNCHANGED <<effectVars, jumpTimers, netVars, histVars>>

\* resetGame without setScore(0)
resetGameKeepsScore ==
  /\ Idle
  /\ renderPauseMenu \/ renderGameOver
  /\ gameState' = "menu"
  /\ gameSession' = 0
  /\ distance' = 0
  /\ UNCHANGED <<currentPlayer, currentTrack, availableTracks, score, dialogue, isJumping,
                 isRunning, isInitialized>>
  /\ UNCHANGED <<effectVars, jumpTimers, netVars, histVars>>

resetGame ==
  /\ Idle
  /\ renderPauseMenu \/ renderGameOver
  /\ gameState' = "menu"
  /\ gameSession' = 0
  /\ score' = 0
  /\ distance' = 0
  /\ UNCHANGED <<currentPlayer, currentTrack, availableTracks, dialogue, isJumping,
                 isRunning, isInitialized>>
  /\ UNCHANGED <<effectVars, jumpTimers, netVars, histVars>>

\* ---- the scoring loop (lines 258-270)

\* the interval callback: setDistance(prev => prev + 1); setScore(prev => prev + 10)
tick ==
  /\ distance' = distance + TickDistance
  /\ score' = score + TickScore

\* the cleanup of the effect run that saw (gs, running), then the effect body
IntervalCleanup(n, gs, running) == IF gs = "playing" /\ running THEN n - 1 ELSE n
IntervalEffect(n, gs, running) == IF gs = "playing" /\ running THEN n + 1 ELSE n

\* an interval fires.  Its updates are rendered at once, or after the
\* effects still pending from the last commit.
intervalFires ==
  /\ intervals > 0
  /\ ~tickInFlight
  /\ distance < MaxDistance
  /\ IF EffectsPending
       THEN tickInFlight' = TRUE /\ UNCHANGED <<score, distance>>
       ELSE tick /\ UNCHANGED tickInFlight
  /\ UNCHANGED <<gameState, currentPlayer, currentTrack, availableTracks, gameSession,
                 dialogue, isJumping, isRunning, isInitialized>>
  /\ UNCHANGED <<depInit, depGameState, depRunning, intervals, timeoutArmed>>
  /\ UNCHANGED <<jumpTimers, netVars, histVars>>

\* the render of the updates of an interval callback that fired while
\* effects were pending
tickRendered ==
  /\ tickInFlight
  /\ ~EffectsPending
  /\ tick
  /\ tickInFlight' = FALSE
  /\ UNCHANGED <<gameState, currentPlayer, currentTrack, availableTracks, gameSession,
                 dialogue, isJumping, isRunning, isInitialized>>
  /\ UNCHANGED <<depInit, depGameState, depRunning, intervals, timeoutArmed>>
  /\ UNCHANGED <<jumpTimers, netVars, histVars>>

\* ---- endGame (lines 213-249), up to its first await

UpdateBody == [id |-> gameSession, score |-> score, distance |-> distance,
               time_played |-> distance \div TimePlayedDivisor, completed |-> TRUE]

endGame ==
  /\ gameState' = "gameOver"
  /\ isRunning' = FALSE
  /\ IF gameSession = 0
       THEN UNCHANGED <<updates, endFlows>>
       ELSE /\ updates' = [updates EXCEPT ![gameSession] = @ + 1]
            /\ endFlows' = Append(endFlows, [awaits |-> "update", body |-> UpdateBody])

\* the passive effects of the last commit: the cleanups of the effects whose
\* dependencies changed, then their bodies
FlushEffects ==
  /\ EffectsPending
  /\ depInit' = isInitialized
  /\ depGameState' = gameState
  /\ depRunning' = isRunning
  /\ timeoutArmed' = IF TimeoutDepsChanged THEN ~isInitialized ELSE timeoutArmed
  /\ intervals' = IF IntervalDepsChanged
                    THEN IntervalEffect(IntervalCleanup(intervals, depGameState, depRunning),
                                        gameState, isRunning)
                    ELSE intervals
  /\ IF AutoEnd
       THEN endGame
       ELSE UNCHANGED <<gameState, isRunning, updates, endFlows>>
  /\ UNCHANGED <<currentPlayer, currentTrack, availableTracks, gameSession, score,
                 distance, dialogue, isJumping, isInitialized>>
  /\ UNCHANGED <<tickInFlight, jumpTimers, initPhase, startPending, histVars>>

\* ---- endGame after its awaits

Context(s) == IF s > VictoryScore THEN "victory" ELSE "defeat"

\* the PUT answered: the dialogue is requested
endGameUpdateResolved ==
  /\ \E i \in DOMAIN endFlows :
       /\ endFlows[i].awaits = "update"
       /\ endFlows' = [endFlows EXCEPT ![i] =
                         [awaits |-> "dialogue", context |-> Context(endFlows[i].body.score)]]
  /\ UNCHANGED <<reactVars, effectVars, jumpTimers, initPhase, startPending, updates,
                 histVars>>

\* the dialogue answered
endGameDialogueResolved ==
  /\ \E i \in DOMAIN endFlows :
       /\ endFlows[i].awaits = "dialogue"
       /\ dialogue' = "backend"
       /\ endFlows' = Remove(endFlows, i)
  /\ UNCHANGED <<gameState, currentPlayer, currentTrack, availableTracks, gameSession,
                 score, distance, isJumping, isRunning, isInitialized>>
  /\ UNCHANGED <<effectVars, jumpTimers, initPhase, startPending, updates, histVars>>

\* the catch: either request failed
endGameRejected ==
  /\ \E i \in DOMAIN endFlows : endFlows' = Remove(endFlows, i)
  /\ UNCHANGED <<reactVars, effectVars, jumpTimers, initPhase, startPending, updates,
                 histVars>>

\* the race: every action but those of the initialization and of the
\* track buttons
NextRace ==
  \/ startGame
  \/ startGameResolved
  \/ startGameRejected
  \/ jumpCharacter
  \/ jumpTimeout
  \/ pauseGame
  \/ resumeGame
  \/ resetGame
  \/ intervalFires
  \/ tickRendered
  \/ FlushEffects
  \/ endGameUpdateResolved
  \/ endGameDialogueResolved
  \/ endGameRejected

Next ==
  \/ forceInitialization
  \/ initializePlayerResolved
  \/ initializeTracksResolved
  \/ initializeDialogueResolved
  \/ initializeRejected
  \/ selectTrack
  \/ NextRace

\* the screen from its mount
Spec == Init /\ [][Next]_vars

\* the menu once initializeGame has returned with the backend's answers and
\* its effects have run: no request of the initialization is in flight and
\* the timeout is cleared
InitRace ==
  /\ gameState = "menu"
  /\ currentPlayer = Some(BackendPlayer)
  /\ \E tracks \in BackendTrackLists :
       availableTracks = tracks /\ currentTrack = Some(tracks[1])
  /\ gameSession = 0
  /\ score = 0
  /\ distance = 0
  /\ dialogue = "backend"
  /\ isJumping = FALSE
  /\ isRunning = FALSE
  /\ isInitialized = TRUE
  /\ depInit = TRUE
  /\ depGameState = "menu"
  /\ depRunning = FALSE
  /\ intervals = 0
  /\ tickInFlight = FALSE
  /\ timeoutArmed = FALSE
  /\ jumpTimers = 0
  /\ initPhase = "done"
  /\ startPending = 0
  /\ endFlows = <<>>
  /\ updates = <<>>
  /\ starts = 0
  /\ jumps = 0
  /\ windowRejected = FALSE
  /\ windowBonus = 0

\* the races of an initialized screen
SpecRace == InitRace /\ [][NextRace]_vars

\* the state SpecRace starts in is one the screen reaches from its mount
NotInitRace == ~InitRace

\* ---- scheduling

\* the timers fire and the renderer runs the effects of a commit.  Nothing
\* makes a request be answered (fetch is called without a timeout, lines
\* 112, 121, 127, 165, 221, 234) and nothing makes the player press.
TimersAndEffects ==
  /\ WF_vars(FlushEffects)
  /\ WF_vars(intervalFires)
  /\ WF_vars(tickRendered)
  /\ WF_vars(jumpTimeout)

\* the races of an initialized screen, with that scheduling
SpecRaceLive == SpecRace /\ TimersAndEffects

\* the screen from its mount when the backend cannot be reached: each
\* request is rejected or stays unanswered
NextOffline ==
  \/ forceInitialization
  \/ initializeRejected
  \/ selectTrack
  \/ startGame
  \/ startGameRejected
  \/ jumpCharacter
  \/ jumpTimeout
  \/ pauseGame
  \/ resumeGame
  \/ resetGame
  \/ intervalFires
  \/ tickRendered
  \/ FlushEffects

SpecOffline ==
  Init /\ [][NextOffline]_vars /\ WF_vars(forceInitialization) /\ TimersAndEffects

\* ---- the claims

\* C1: a startGame that completes in Menu or in GameOver, resolved or
\* rejected, leaves score = 0 and distance = 0 when it makes the mode playing.
C1_StartResetsCounters ==
  [][(/\ startPending' < startPending
      /\ gameState \in {"menu", "gameOver"}
      /\ gameState' = "playing")
     => (score' = 0 /\ distance' = 0)]_vars

\* C2: during a race, score = 10 * distance + 50 * (jumps accepted since the
\* race started).
C2_ScoreOfDistanceAndJumps ==
  gameState \in {"playing", "paused"}
    => score = TickScore * distance + JumpBonus * jumps

\* C3: while the timer of a jump is pending, the jump() calls made since it
\* was set have added exactly one bonus of 50 to score.
C3_OneBonusPerCooldown == jumpTimers > 0 => windowBonus = JumpBonus

\* a second jump() was made, and rejected, before the timer of the first fired
C3_Witness ==
  /\ gameState = "playing"
  /\ jumpTimers > 0
  /\ windowRejected
  /\ windowBonus = JumpBonus

\* C4: a startGame that completes in Playing or in Paused, where the table
\* has no start transition, leaves the mode, score and distance unchanged.
C4_LateStartIsNoOp ==
  [][(startPending' < startPending /\ gameState \in {"playing", "paused"})
     => UNCHANGED <<gameState, score, distance>>]_vars

\* C5: the backend receives at most one updateSession per session.
C5_FinalizedOnce == \A id \in DOMAIN updates : updates[id] <= 1

\* C6: a tick is applied only in a step that starts and ends in Playing, and
\* at most one interval is active.
C6_NoTickOutsidePlaying ==
  [][/\ distance' = distance + TickDistance
          => (gameState = "playing" /\ gameState' = "playing")
     /\ intervals' <= 1]_vars

\* C7: pause keeps score and distance, they stay unchanged while Paused, and
\* resume keeps them.
C7_PauseFreezesCounters ==
  [][/\ (gameState = "playing" /\ gameState' = "paused")
          => UNCHANGED <<score, distance>>
     /\ (gameState = "paused" /\ gameState' = "paused")
          => UNCHANGED <<score, distance>>
     /\ (gameState = "paused" /\ gameState' = "playing" /\ startPending' = startPending)
          => UNCHANGED <<score, distance>>]_vars

\* C8: a step within Playing decreases neither score nor distance, and a step
\* within GameOver changes neither.
C8_MonotoneThenFrozen ==
  [][/\ (gameState = "playing" /\ gameState' = "playing")
          => (score' >= score /\ distance' >= distance)
     /\ (gameState = "gameOver" /\ gameState' = "gameOver")
          => UNCHANGED <<score, distance>>]_vars

\* C9: where the precondition of jump() fails (a jump in progress, or the
\* mode is not Playing) no step adds the jump bonus, sets isJumping or
\* schedules a jump timer, and a rejected jump() changes none of score,
\* distance, mode, isJumping and the jump timers.
C9_RejectedJumpIsNoOp ==
  [][/\ (isJumping \/ gameState # "playing")
          => /\ score' # score + JumpBonus
             /\ jumpTimers' <= jumpTimers
             /\ isJumping' => isJumping
     /\ (windowRejected' /\ ~windowRejected)
          => UNCHANGED <<score, distance, gameState, isJumping, jumpTimers>>]_vars

\* a jump() was rejected while the jump before it is in progress
C9_Witness == windowRejected /\ isJumping /\ jumpTimers = 1

\* C10: the step from Paused or GameOver to Menu discards the session,
\* zeroes score and distance and keeps the player, the track and the tracks.
C10_ResetToMenu ==
  [][(gameState \in {"paused", "gameOver"} /\ gameState' = "menu")
     => /\ gameSession' = 0
        /\ score' = 0
        /\ distance' = 0
        /\ UNCHANGED <<currentPlayer, currentTrack, availableTracks>>]_vars

\* back in the menu after a race that had a session and a score
C10_Witness ==
  /\ gameState = "menu"
  /\ starts > 0
  /\ Len(updates) > 0
  /\ gameSession = 0
  /\ score = 0
  /\ distance = 0

\* C11: after a start press (START RACE in the menu, Race Again in GameOver,
\* with a player and a track) the mode eventually is playing, whether the
\* request is rejected or never answered; and the step that issues the
\* requests of endGame is the step that makes the mode gameOver.
C11_StartDoesNotBlock ==
  /\ (startPending > 0) ~> (gameState = "playing")
  /\ [][Len(endFlows') > Len(endFlows) => gameState' = "gameOver"]_vars

\* C12: with the backend unreachable the screen eventually is initialized,
\* and is so once the 5 s timeout has fired; initialized, it holds the
\* fallback player and exactly the one fallback track; and the mode is menu
\* in every state in which it is not initialized.
C12_OfflineInitialization ==
  /\ <>isInitialized
  /\ [](~isInitialized => timeoutArmed)
  /\ [](isInitialized => /\ currentPlayer = Some(FallbackPlayer)
                         /\ availableTracks = FallbackTracks)
  /\ [](~isInitialized => gameState = "menu")

\* the timeout has fired while the first request is still unanswered
C12_Witness ==
  /\ isInitialized
  /\ initPhase = "player"
  /\ ~timeoutArmed
  /\ currentPlayer = Some(FallbackPlayer)
  /\ availableTracks = FallbackTracks

\* C13: the step that makes the screen initialized, by any of its three
\* paths, leaves a non-empty track list whose first element is the selected
\* track, and a player: startGame's test of line 161 then passes.
C13_InitializedWithFirstTrack ==
  [][(~isInitialized /\ isInitialized')
     => /\ availableTracks' # <<>>
        /\ currentTrack' = Some(availableTracks'[1])
        /\ currentPlayer' # None]_vars

\* C14: every step from Playing to GameOver sends the update of the session
\* held, with the score and the distance of that moment, completed = true and
\* time_played = floor(distance / 10); and the dialogue requested once the
\* update is answered has context victory if that score is above 500, defeat
\* otherwise.
C14_EveryEndFinalizes ==
  [][/\ (gameState = "playing" /\ gameState' = "gameOver")
          => /\ gameSession # 0
             /\ Len(endFlows') = Len(endFlows) + 1
             /\ endFlows'[Len(endFlows')] =
                  [awaits |-> "update",
                   body |-> [id |-> gameSession, score |-> score, distance |-> distance,
                             time_played |-> distance \div TimePlayedDivisor,
                             completed |-> TRUE]]
     /\ Len(endFlows') = Len(endFlows)
          => \A i \in DOMAIN endFlows :
               (endFlows[i].awaits = "update" /\ endFlows'[i].awaits = "dialogue")
                 => endFlows'[i].context =
                      (IF endFlows[i].body.score > VictoryScore THEN "victory" ELSE "defeat")]_vars

\* C15: the session held while the mode is playing is the session of this
\* race: no update (completed = true) has been sent for it, so it is never
\* the session of the race before, also after Race Again.
C15_SessionOfThisRace ==
  (gameState = "playing" /\ gameSession # 0) => updates[gameSession] = 0

\* C16: in Playing with distance > 200 the next step that changes the mode,
\* the score or the distance is the step to GameOver, which changes neither
\* counter; and distance never exceeds 201.
C16_EndsAtFirstTickPastThreshold ==
  /\ [][(/\ gameState = "playing"
         /\ distance > Threshold
         /\ <<gameState, score, distance>>' # <<gameState, score, distance>>)
        => (gameState' = "gameOver" /\ UNCHANGED <<score, distance>>)]_vars
  /\ [](distance <= Threshold + TickDistance)

\* C17: isJumping is true exactly when a jump timer is pending; at most one
\* is pending; a timer is scheduled only by a jump() made in Playing with no
\* jump in progress, and a rejected jump() leaves the timers alone; the
\* timer that fires resets isJumping; and a jump in progress eventually is
\* over, whatever the mode becomes in between.
C17_JumpTimer ==
  /\ [](isJumping <=> jumpTimers > 0)
  /\ [](jumpTimers <= 1)
  /\ [][jumpTimers' > jumpTimers => (~isJumping /\ gameState = "playing")]_vars
  /\ [][(windowRejected' /\ ~windowRejected) => UNCHANGED jumpTimers]_vars
  /\ [][jumpTimers' < jumpTimers => ~isJumping']_vars
  /\ isJumping ~> ~isJumping

\* the timer of a jump is still pending after a pause and a reset to the menu
C17_Witness == gameState = "menu" /\ isJumping /\ jumpTimers = 1 /\ jumps = 1

\* C18: once the screen is initialized no step changes the player or the
\* track list, and a step changes the selected track only in the menu, to a
\* track of the list, and changes nothing else (a track button).
C18_ReferenceDataFixed ==
  [][isInitialized
     => /\ UNCHANGED <<currentPlayer, availableTracks>>
        /\ currentTrack' # currentTrack
             => /\ gameState = "menu"
                /\ \E i \in DOMAIN availableTracks : currentTrack' = Some(availableTracks[i])
                /\ UNCHANGED <<isInitialized, dialogue, initPhase, timeoutArmed>>]_vars

\* C19: isRunning is true exactly when the mode is playing, so the condition
\* of the interval effect (line 261) is that the mode is playing.
C19_RunningIffPlaying ==
  /\ isRunning <=> gameState = "playing"
  /\ (gameState = "playing" /\ isRunning) <=> gameState = "playing"

\* paused in the second race, after the first has ended
C19_Witness ==
  /\ gameState = "paused"
  /\ ~isRunning
  /\ Len(updates) = 2
  /\ updates[1] = 1

\* C20: in every state in which the mode is menu, score = 0, distance = 0
\* and no session is held.
C20_MenuIsClean ==
  gameState = "menu" => (score = 0 /\ distance = 0 /\ gameSession = 0)

\* back in the menu while a start request and the requests of endGame are
\* still unanswered and the timer of a jump is pending
C20_Witness ==
  /\ gameState = "menu"
  /\ startPending > 0
  /\ endFlows # <<>>
  /\ jumpTimers > 0
  /\ score = 0
  /\ distance = 0
  /\ gameSession = 0

====
